---- MODULE Spec2Model ----
(***************************************************************************)
(* A model of storey's execution core (src/storey/flow.py): the Source     *)
(* with its admission queue, worker thread and FlowController, the shared  *)
(* fan-out / termination protocol of Flow._do_downstream, the Map and      *)
(* Reduce nodes, and JoinWithHttp with its bounded internal queue and      *)
(* consumer task.                                                          *)
(*                                                                         *)
(* Granularity.  Producer threads and the worker thread are preemptive:    *)
(* every queue operation and every read or write of Source._ex is a step   *)
(* of its own.  Inside the worker's event loop a step is what one asyncio  *)
(* task runs between two suspension points (an await of a task that is not *)
(* done, of a full or empty asyncio queue, of a response, of a suspended   *)
(* user function).  Runnable tasks are taken in any order.                 *)
(***************************************************************************)
EXTENDS Integers, Sequences, FiniteSets, TLC

\* ------------------------------------------------------------------ bounds
\* Emit calls over a run, terminate calls over a run, await_termination calls.
MaxEmits == 3
MaxTerminates == 1
MaxAwaits == 2

\* Source.__init__(buffer_size=1): capacity of the admission queue.
BufferSize == 1
\* JoinWithHttp(max_in_flight=...): capacity of the join's internal queue.
MaxInFlight == 1

\* ------------------------------------------------------------------ values
Producers == {"p1", "p2"}
Payloads == {"a", "b"}
\* The payload on which a raising user function raises.
BadPayload == "b"

Nodes == {"source", "mapA", "mapB", "join", "reduceA", "reduceB", "reduceC"}

Kind(n) ==
    CASE n = "source" -> "Source"
      [] n \in {"mapA", "mapB"} -> "Map"
      [] n = "join" -> "JoinWithHttp"
      [] OTHER -> "Reduce"

\* The sentinel of flow.py line 14; an Event is [id, el] with id >= 1, where id
\* is the event's position in the order of admission to the queue.
termination_obj == [id |-> 0, el |-> "_termination_obj"]
NoEvent == [id |-> -1, el |-> "none"]
Event(k, x) == [id |-> k, el |-> x]

\* Python values that termination results take: None, or a Reduce's result.
None == [k |-> "none", v |-> <<>>]
Val(s) == [k |-> "val", v |-> s]

\* Exceptions, by where they were raised and on which event.
NoEx == [what |-> "none", node |-> "none", id |-> -1]
Exc(w, n, k) == [what |-> w, node |-> n, id |-> k]

VARIABLES
    cfg,                \* the wired tree and the user functions (fixed by Init)
    q,                  \* Source._q
    termination_q,      \* Source._termination_q
    ex,                 \* Source._ex
    termination_future, \* Source._termination_future: <<>> unset, <<v>> set
    wpc,                \* position of the worker thread in _loop_thread_main
    cur,                \* the item the worker took from _q
    node,               \* per node: the activation of _do / _do_downstream
    result,             \* Reduce._result
    jq,                 \* JoinWithHttp._q
    jw,                 \* JoinWithHttp._worker task
    req,                \* per event id: the state of its HTTP request
    session,            \* JoinWithHttp._client_session
    pc,                 \* per producer thread: position in its Controller call
    item,               \* per producer thread: the argument of _emit
    calls,              \* counters: calls begun by kind, calls that raised, _emit calls returned
    awaitOut,           \* per producer: outcome of its last await_termination
    emitted,            \* history: the items put into _q, in order
    seen,               \* history: per node, the ids of the events whose _do began
    termCount,          \* history: per node, the termination signals received
    overtaken,          \* history: a response has come while an earlier request was pending
    blockedAtFailure    \* history: the producers blocked in _q.put when _ex was set

vars == <<cfg, q, termination_q, ex, termination_future, wpc, cur, node, result,
          jq, jw, req, session, pc, item, calls, awaitOut, emitted, seen, termCount,
          overtaken, blockedAtFailure>>

srcVars == <<q, termination_q, ex, termination_future, wpc, cur, blockedAtFailure>>
joinVars == <<jq, jw, req, session, overtaken>>
prodVars == <<pc, item, calls, awaitOut, emitted>>

\* ------------------------------------------------------------- the trees
\* Flow.to / build_flow: the outlets of every node, in registration order.
OutletsOf(topo) ==
    CASE topo = "pipeline" ->
            [n \in Nodes |-> CASE n = "source" -> <<"mapA">>
                               [] n = "mapA" -> <<"mapB">>
                               [] n = "mapB" -> <<"reduceA">>
                               [] OTHER -> <<>>]
      [] topo = "fanout" ->
            [n \in Nodes |-> CASE n = "source" -> <<"mapA", "mapB">>
                               [] n = "mapA" -> <<"reduceA">>
                               [] n = "mapB" -> <<"reduceB">>
                               [] OTHER -> <<>>]
      [] topo = "leaf" ->
            [n \in Nodes |-> CASE n = "source" -> <<"mapA">>
                               [] OTHER -> <<>>]
      [] topo = "joinline" ->
            [n \in Nodes |-> CASE n = "source" -> <<"join">>
                               [] n = "join" -> <<"reduceA">>
                               [] OTHER -> <<>>]
      [] topo = "fan3" ->
            [n \in Nodes |-> CASE n = "source" -> <<"mapA", "reduceB", "mapB">>
                               [] n = "mapA" -> <<"reduceA">>
                               [] n = "mapB" -> <<"reduceC">>
                               [] OTHER -> <<>>]
      [] topo = "mapjoin" ->
            [n \in Nodes |-> CASE n = "source" -> <<"mapA">>
                               [] n = "mapA" -> <<"join">>
                               [] n = "join" -> <<"reduceA">>
                               [] OTHER -> <<>>]
      [] topo = "join" ->
            [n \in Nodes |-> CASE n = "source" -> <<"join", "mapB">>
                               [] n = "join" -> <<"reduceA">>
                               [] n = "mapB" -> <<"reduceB">>
                               [] OTHER -> <<>>]

Outlets(n) == OutletsOf(cfg.topo)[n]

RECURSIVE Reachable(_)
Reachable(n) ==
    {n} \cup UNION {Reachable(Outlets(n)[i]) : i \in 1..Len(Outlets(n))}

Tree == Reachable("source")


\* ------------------------------------------------------- user functions
\* A user function (the fn of a Map or Reduce, join_from_response of a join)
\* of a node listed in cfg.raising raises on BadPayload.
UserRaises(n, x) == n \in cfg.raising /\ x = BadPayload

\* The fn of the Map nodes that do not raise is the identity.
MapFn(x) == x

\* The accumulator function of the Reduce nodes appends the payload.
ReduceFn(acc, x) == Append(acc, x)

\* A default combiner that keeps the later outlet's result.
DefaultCombiner_KeepLast(x, y) == y

\* Flow.__init__: the default termination_result_fn is lambda x, y: None.
DefaultCombiner(x, y) == None

\* A combiner passed to the constructor that is not associative and keeps
\* both arguments in order: (x, y) written out in brackets.
Bracket(x, y) == Val(<<"(">> \o x.v \o <<",">> \o y.v \o <<")">>)

\* Flow._termination_result_fn, as passed to the constructor or defaulted.
TerminationResultFn(x, y) ==
    CASE cfg.combiner = "default" -> DefaultCombiner(x, y)
      [] cfg.combiner = "second" -> y
      [] cfg.combiner = "bracket" -> Bracket(x, y)
      [] OTHER -> x

\* ------------------------------------------------------------ activations
IdleNode == [st |-> "idle", ev |-> NoEvent, i |-> 0, acc |-> None, exc |-> NoEx]
IdleWorker == [st |-> "none", job |-> NoEvent, i |-> 0, exc |-> NoEx]

IsOutlet(n, m) == \E i \in 1..Len(Outlets(n)) : Outlets(n)[i] = m

\* Flow._do_downstream, lines 47-49: one task per outlet, created in order.
CreateTasks(nd, n, e) ==
    [m \in Nodes |-> IF IsOutlet(n, m)
                       THEN [IdleNode EXCEPT !.st = "ready", !.ev = e]
                       ELSE nd[m]]

\* Flow._do_downstream for a regular event, called from the activation of n:
\* the tasks are created and n goes on to await the first of them.
DoDownstream(nd, n, e) ==
    [CreateTasks(nd, n, e) EXCEPT
        ![n] = IF Outlets(n) = <<>>
                 THEN [@ EXCEPT !.st = "ok"]
                 ELSE [@ EXCEPT !.st = "wait", !.i = 1]]

\* Flow._do_downstream for the termination signal, called from the activation
\* of n: self._outlets[0] raises IndexError when n has no outlets.
DoDownstreamTermination(a, n) ==
    IF Outlets(n) = <<>>
      THEN [a EXCEPT !.st = "exc", !.exc = Exc("IndexError", n, 0)]
      ELSE [a EXCEPT !.st = "tfwd", !.i = 1, !.ev = termination_obj]

\* asyncio.run on its way out cancels every task that is not done.
CancelTasks(nd) ==
    [m \in Nodes |-> IF m # "source" /\ nd[m].st \in {"ready", "susp", "wait", "jput",
                                                     "tfwd", "tjput", "tjwait"}
                       THEN [nd[m] EXCEPT !.st = "cancelled"]
                       ELSE nd[m]]

\* The event loop runs tasks while the worker's coroutine is suspended in it.
LoopRunning == wpc \in {"get", "got", "run"}

\* ------------------------------------------------- FlowController / _emit
NextId == Cardinality({k \in 1..Len(emitted) : emitted[k] # termination_obj}) + 1

\* Source._emit, line 110: the first _raise_on_error, then on to the put.
EmitEnter(p, x) ==
    /\ pc[p] = "idle"
    /\ IF ex # NoEx
         THEN UNCHANGED <<pc, item>>
         ELSE /\ pc' = [pc EXCEPT ![p] = "put"]
              /\ item' = [item EXCEPT ![p] = x]

\* FlowController.emit over an _emit without the _raise_on_error of line 110:
\* the call goes on to the put whatever _ex holds.
Emit_NoEntryCheck(p, x) ==
    /\ calls.emit < MaxEmits
    /\ pc[p] = "idle"
    /\ pc' = [pc EXCEPT ![p] = "put"]
    /\ item' = [item EXCEPT ![p] = x]
    /\ calls' = [calls EXCEPT !.emit = @ + 1]
    /\ UNCHANGED <<cfg, srcVars, node, result, joinVars, awaitOut, emitted, seen, termCount>>

\* FlowController.emit
Emit(p, x) ==
    /\ calls.emit < MaxEmits
    /\ EmitEnter(p, x)
    /\ calls' = [calls EXCEPT !.emit = @ + 1,
                              !.raised = IF ex # NoEx THEN @ + 1 ELSE @]
    /\ UNCHANGED <<cfg, srcVars, node, result, joinVars, awaitOut, emitted, seen, termCount>>

\* FlowController.terminate
Terminate(p) ==
    /\ calls.terminate < MaxTerminates
    /\ EmitEnter(p, "_termination_obj")
    /\ calls' = [calls EXCEPT !.terminate = @ + 1,
                              !.raised = IF ex # NoEx THEN @ + 1 ELSE @]
    /\ UNCHANGED <<cfg, srcVars, node, result, joinVars, awaitOut, emitted, seen, termCount>>

\* Source._emit over a queue built without its maxsize: the put never blocks.
EmitPut_Unbounded(p) ==
    /\ pc[p] = "put"
    /\ LET it == IF item[p] = "_termination_obj"
                   THEN termination_obj
                   ELSE Event(NextId, item[p])
       IN /\ q' = Append(q, it)
          /\ emitted' = Append(emitted, it)
    /\ pc' = [pc EXCEPT ![p] = "check"]
    /\ UNCHANGED <<cfg, termination_q, ex, termination_future, wpc, cur, node, result,
                   joinVars, item, calls, awaitOut, seen, termCount, blockedAtFailure>>

\* Source._emit, line 111: the blocking put into the admission queue.
EmitPut(p) ==
    /\ pc[p] = "put"
    /\ Len(q) < BufferSize
    /\ LET it == IF item[p] = "_termination_obj"
                   THEN termination_obj
                   ELSE Event(NextId, item[p])
       IN /\ q' = Append(q, it)
          /\ emitted' = Append(emitted, it)
    /\ pc' = [pc EXCEPT ![p] = "check"]
    /\ UNCHANGED <<cfg, termination_q, ex, termination_future, wpc, cur, node, result,
                   joinVars, item, calls, awaitOut, seen, termCount, blockedAtFailure>>

\* Source._emit, line 112: the second _raise_on_error.
EmitCheck(p) ==
    /\ pc[p] = "check"
    /\ pc' = [pc EXCEPT ![p] = "idle"]
    /\ calls' = IF ex # NoEx
                  THEN [calls EXCEPT !.raised = @ + 1]
                  ELSE [calls EXCEPT !.returned = @ + 1]
    /\ UNCHANGED <<cfg, srcVars, node, result, joinVars, item, awaitOut, emitted, seen,
                   termCount>>

\* FlowController.await_termination: the call begins and blocks on
\* _termination_q.get() (line 121).
AwaitTermination(p) ==
    /\ pc[p] = "idle"
    /\ calls.await < MaxAwaits
    /\ pc' = [pc EXCEPT ![p] = "await"]
    /\ calls' = [calls EXCEPT !.await = @ + 1]
    /\ UNCHANGED <<cfg, srcVars, node, result, joinVars, item, awaitOut, emitted, seen,
                   termCount>>

\* raise_error_or_return_termination_result without its _raise_on_error: the
\* future's result is returned whatever _termination_q held.
AwaitReturn_ErrorIgnored(p) ==
    /\ pc[p] = "await"
    /\ termination_q # <<>>
    /\ termination_q' = Tail(termination_q)
    /\ pc' = [pc EXCEPT ![p] = "idle"]
    /\ awaitOut' = [awaitOut EXCEPT
          ![p] = [kind |-> "returned", cause |-> NoEx, val |-> Head(termination_future)]]
    /\ UNCHANGED <<cfg, q, ex, termination_future, wpc, cur, node, result, joinVars,
                   item, calls, emitted, seen, termCount, blockedAtFailure>>

\* raise_error_or_return_termination_result reading the outcome without
\* taking it off _termination_q.
AwaitReturn_OutcomeLeftInQueue(p) ==
    /\ pc[p] = "await"
    /\ termination_q # <<>>
    /\ termination_q' = termination_q
    /\ pc' = [pc EXCEPT ![p] = "idle"]
    /\ IF Head(termination_q) # NoEx
         THEN /\ awaitOut' = [awaitOut EXCEPT
                    ![p] = [kind |-> "FlowError", cause |-> ex, val |-> None]]
              /\ calls' = [calls EXCEPT !.raised = @ + 1]
         ELSE /\ awaitOut' = [awaitOut EXCEPT
                    ![p] = [kind |-> "returned", cause |-> NoEx,
                            val |-> Head(termination_future)]]
              /\ UNCHANGED calls
    /\ UNCHANGED <<cfg, q, ex, termination_future, wpc, cur, node, result, joinVars,
                   item, emitted, seen, termCount, blockedAtFailure>>

\* raise_error_or_return_termination_result, lines 120-122.
AwaitReturn(p) ==
    /\ pc[p] = "await"
    /\ termination_q # <<>>
    /\ termination_q' = Tail(termination_q)
    /\ pc' = [pc EXCEPT ![p] = "idle"]
    /\ IF Head(termination_q) # NoEx
         THEN /\ awaitOut' = [awaitOut EXCEPT
                    ![p] = [kind |-> "FlowError", cause |-> ex, val |-> None]]
              /\ calls' = [calls EXCEPT !.raised = @ + 1]
         ELSE /\ awaitOut' = [awaitOut EXCEPT
                    ![p] = [kind |-> "returned", cause |-> NoEx,
                            val |-> Head(termination_future)]]
              /\ UNCHANGED calls
    /\ UNCHANGED <<cfg, q, ex, termination_future, wpc, cur, node, result, joinVars,
                   item, emitted, seen, termCount, blockedAtFailure>>

\* --------------------------------------------------- the Source's worker
\* Source._run_loop, line 87: the executor thread's blocking _q.get().
WorkerGet ==
    /\ wpc = "get"
    /\ q # <<>>
    /\ cur' = Head(q)
    /\ q' = Tail(q)
    /\ wpc' = "got"
    /\ UNCHANGED <<cfg, termination_q, ex, termination_future, node, result, joinVars,
                   prodVars, seen, termCount, blockedAtFailure>>

\* Source._run_loop, line 89: the coroutine resumes with the item and calls
\* _do_downstream on it.
WorkerDispatch ==
    /\ wpc = "got"
    /\ wpc' = "run"
    /\ IF cur = termination_obj
         THEN /\ node' = [node EXCEPT !["source"] = DoDownstreamTermination(@, "source")]
              /\ termCount' = [termCount EXCEPT !["source"] = @ + 1]
              /\ UNCHANGED seen
         ELSE /\ node' = DoDownstream(node, "source", cur)
              /\ seen' = [seen EXCEPT !["source"] = Append(@, cur.id)]
              /\ UNCHANGED termCount
    /\ UNCHANGED <<cfg, q, termination_q, ex, termination_future, cur, result, joinVars,
                   prodVars, blockedAtFailure>>

\* Source._run_loop without the break of line 97: a failure is recorded and
\* the loop goes back to the queue.
WorkerResume_NoBreak ==
    /\ wpc = "run"
    /\ node["source"].st \in {"ok", "tret", "exc"}
    /\ node' = [node EXCEPT !["source"] = IdleNode]
    /\ CASE node["source"].st = "ok" ->
              /\ wpc' = "get"
              /\ UNCHANGED <<ex, termination_future, blockedAtFailure>>
         [] node["source"].st = "tret" ->
              /\ termination_future' = <<node["source"].acc>>
              /\ wpc' = "exiting"
              /\ UNCHANGED <<ex, blockedAtFailure>>
         [] node["source"].st = "exc" ->
              /\ ex' = node["source"].exc
              /\ wpc' = "get"
              /\ UNCHANGED <<termination_future, blockedAtFailure>>
    /\ UNCHANGED <<cfg, q, termination_q, cur, result, joinVars, prodVars, seen, termCount>>

\* Source._run_loop with set_result(None) on the termination signal: the
\* aggregated result is not captured.
WorkerResume_ResultDropped ==
    /\ wpc = "run"
    /\ node["source"].st \in {"ok", "tret", "exc"}
    /\ node' = [node EXCEPT !["source"] = IdleNode]
    /\ CASE node["source"].st = "ok" ->
              /\ wpc' = "get"
              /\ UNCHANGED <<ex, termination_future, blockedAtFailure>>
         [] node["source"].st = "tret" ->
              /\ termination_future' = <<None>>
              /\ wpc' = "exiting"
              /\ UNCHANGED <<ex, blockedAtFailure>>
         [] node["source"].st = "exc" ->
              /\ ex' = node["source"].exc
              /\ wpc' = "except"
              /\ blockedAtFailure' =
                    {p \in Producers : pc[p] = "put" /\ Len(q) = BufferSize}
              /\ UNCHANGED termination_future
    /\ UNCHANGED <<cfg, q, termination_q, cur, result, joinVars, prodVars, seen, termCount>>

\* Source._run_loop, lines 89-99: _do_downstream has returned or raised.
\* Returned: on the termination signal the future is set and the loop left,
\* otherwise the loop goes back to the queue.  Raised: _ex is recorded
\* (line 93).
WorkerResume ==
    /\ wpc = "run"
    /\ node["source"].st \in {"ok", "tret", "exc"}
    /\ node' = [node EXCEPT !["source"] = IdleNode]
    /\ CASE node["source"].st = "ok" ->
              /\ wpc' = "get"
              /\ UNCHANGED <<ex, termination_future, blockedAtFailure>>
         [] node["source"].st = "tret" ->
              /\ termination_future' = <<node["source"].acc>>
              /\ wpc' = "exiting"
              /\ UNCHANGED <<ex, blockedAtFailure>>
         [] node["source"].st = "exc" ->
              /\ ex' = node["source"].exc
              /\ wpc' = "except"
              /\ blockedAtFailure' =
                    {p \in Producers : pc[p] = "put" /\ Len(q) = BufferSize}
              /\ UNCHANGED termination_future
    /\ UNCHANGED <<cfg, q, termination_q, cur, result, joinVars, prodVars, seen, termCount>>

\* Source._run_loop, lines 94-97: one pending item is taken off the queue,
\* the future is set to None and the loop is left.
WorkerDrain ==
    /\ wpc = "except"
    /\ q' = IF q # <<>> THEN Tail(q) ELSE q
    /\ termination_future' = <<None>>
    /\ wpc' = "exiting"
    /\ UNCHANGED <<cfg, termination_q, ex, cur, node, result, joinVars, prodVars, seen,
                   termCount, blockedAtFailure>>


\* JoinWithHttp._worker without lines 258-259: the except clause re-raises
\* and takes nothing off the internal queue.
WorkerExcept_NoDrain(e, st) ==
    /\ jq' = jq
    /\ session' = "closed"
    /\ jw' = [IdleWorker EXCEPT !.st = st, !.exc = e]

\* JoinWithHttp._worker, lines 257-262: the except and finally clauses. One
\* queued record is taken off the internal queue and the client is closed.
WorkerExcept(e, st) ==
    /\ jq' = IF jq # <<>> THEN Tail(jq) ELSE jq
    /\ session' = "closed"
    /\ jw' = [IdleWorker EXCEPT !.st = st, !.exc = e]

\* Source._loop_thread_main, lines 102-103: asyncio.run returns, having
\* cancelled the tasks that are left (a cancelled consumer task of the join
\* runs its except and finally clauses), and the outcome is handed over.
WorkerExit ==
    /\ wpc = "exiting"
    /\ wpc' = "exited"
    /\ termination_q' = Append(termination_q, ex)
    /\ node' = CancelTasks(node)
    /\ IF jw.st \in {"get", "resp", "fwd"}
         THEN WorkerExcept(Exc("CancelledError", "join", jw.job.id), "cancelled")
         ELSE UNCHANGED <<jq, jw, session>>
    /\ UNCHANGED <<cfg, q, ex, termination_future, cur, result, req, prodVars, seen,
                   termCount, overtaken, blockedAtFailure>>

\* ------------------------------------------------------ Map and Reduce
\* UnaryFunctionFlow._do, lines 147-149, from the return of the user function:
\* it raised, or Map._do_internal forwards the mapped event.
MapCall(nd, n) ==
    IF UserRaises(n, nd[n].ev.el)
      THEN [nd EXCEPT ![n].st = "exc", ![n].exc = Exc("user", n, nd[n].ev.id)]
      ELSE DoDownstream(nd, n, Event(nd[n].ev.id, MapFn(nd[n].ev.el)))

\* UnaryFunctionFlow._do on a regular event: the task of a Map node starts.
\* An async user function suspends; a plain one returns at once.
Map_do(n) ==
    /\ LoopRunning
    /\ Kind(n) = "Map"
    /\ node[n].st = "ready"
    /\ seen' = [seen EXCEPT ![n] = Append(@, node[n].ev.id)]
    /\ node' = IF n \in cfg.suspending
                 THEN [node EXCEPT ![n].st = "susp"]
                 ELSE MapCall(node, n)
    /\ UNCHANGED <<cfg, srcVars, result, joinVars, prodVars, termCount>>

\* UnaryFunctionFlow._call, line 137: the awaited user function is released
\* by its environment and returns.
Release(n) ==
    /\ LoopRunning
    /\ node[n].st = "susp"
    /\ node' = MapCall(node, n)
    /\ UNCHANGED <<cfg, srcVars, result, joinVars, prodVars, seen, termCount>>

\* Reduce._do without the assignment of line 190: the result is computed and
\* dropped.
Reduce_do_ResultNotStored(n) ==
    /\ LoopRunning
    /\ Kind(n) = "Reduce"
    /\ node[n].st = "ready"
    /\ seen' = [seen EXCEPT ![n] = Append(@, node[n].ev.id)]
    /\ node' = [node EXCEPT ![n].st = "ok"]
    /\ UNCHANGED <<cfg, srcVars, result, joinVars, prodVars, termCount>>

\* Reduce._do on a regular event, lines 186-190.
Reduce_do(n) ==
    /\ LoopRunning
    /\ Kind(n) = "Reduce"
    /\ node[n].st = "ready"
    /\ seen' = [seen EXCEPT ![n] = Append(@, node[n].ev.id)]
    /\ IF UserRaises(n, node[n].ev.el)
         THEN /\ node' = [node EXCEPT ![n].st = "exc",
                                      ![n].exc = Exc("user", n, node[n].ev.id)]
              /\ UNCHANGED result
         ELSE /\ node' = [node EXCEPT ![n].st = "ok"]
              /\ result' = [result EXCEPT ![n] = ReduceFn(@, node[n].ev.el)]
    /\ UNCHANGED <<cfg, srcVars, joinVars, prodVars, termCount>>

\* Flow._do_downstream awaiting only the first of the tasks it created.
AwaitTask_FirstOnly(n) ==
    /\ LoopRunning
    /\ node[n].st = "wait"
    /\ LET c == Outlets(n)[node[n].i]
       IN /\ node[c].st \in {"ok", "exc"}
          /\ node' = [node EXCEPT
                ![c] = IdleNode,
                ![n] = IF node[c].st = "exc"
                         THEN [@ EXCEPT !.st = "exc", !.exc = node[c].exc]
                         ELSE [@ EXCEPT !.st = "ok"]]
    /\ UNCHANGED <<cfg, srcVars, result, joinVars, prodVars, seen, termCount>>

\* Flow._do_downstream, lines 50-51: the await of the next outlet's task, once
\* that task is done.  Its exception, if any, is raised in the awaiting node.
AwaitTask(n) ==
    /\ LoopRunning
    /\ node[n].st = "wait"
    /\ LET c == Outlets(n)[node[n].i]
       IN /\ node[c].st \in {"ok", "exc"}
          /\ node' = [node EXCEPT
                ![c] = IdleNode,
                ![n] = IF node[c].st = "exc"
                         THEN [@ EXCEPT !.st = "exc", !.exc = node[c].exc]
                         ELSE IF node[n].i = Len(Outlets(n))
                                THEN [@ EXCEPT !.st = "ok"]
                                ELSE [@ EXCEPT !.i = @ + 1]]
    /\ UNCHANGED <<cfg, srcVars, result, joinVars, prodVars, seen, termCount>>

\* ------------------------------------------------- the termination signal
\* What a Map or Reduce node does with the termination signal:
\* UnaryFunctionFlow._do lines 144-145, Reduce._do lines 183-184.
Terminated(n) ==
    IF Kind(n) = "Reduce"
      THEN [node[n] EXCEPT !.st = "tret", !.acc = Val(result[n]), !.ev = termination_obj]
      ELSE DoDownstreamTermination(node[n], n)

\* Flow._do_downstream, lines 43 and 45: the node calls _do(_termination_obj)
\* of its next outlet, a Map or a Reduce.
TermCall(n) ==
    /\ LoopRunning
    /\ node[n].st = "tfwd"
    /\ LET c == Outlets(n)[node[n].i]
       IN /\ Kind(c) \in {"Map", "Reduce"}
          /\ node[c].st = "idle"
          /\ node' = [node EXCEPT ![c] = Terminated(c)]
          /\ termCount' = [termCount EXCEPT ![c] = @ + 1]
    /\ UNCHANGED <<cfg, srcVars, result, joinVars, prodVars, seen>>

\* Flow._do_downstream without the loop of lines 44-45: the first outlet's
\* result is returned and the other outlets are not called.
TermReturn_FirstOutletOnly(n) ==
    /\ LoopRunning
    /\ node[n].st = "tfwd"
    /\ LET c == Outlets(n)[node[n].i]
       IN /\ node[c].st \in {"tret", "exc"}
          /\ node' = [node EXCEPT
                ![c] = [IdleNode EXCEPT !.st = "tdone"],
                ![n] = IF node[c].st = "exc"
                         THEN [@ EXCEPT !.st = "exc", !.exc = node[c].exc]
                         ELSE [@ EXCEPT !.st = "tret", !.acc = node[c].acc]]
    /\ UNCHANGED <<cfg, srcVars, result, joinVars, prodVars, seen, termCount>>

\* Flow._do_downstream with the combiner's arguments the other way round:
\* termination_result_fn(await outlet._do(...), termination_result).
TermReturn_ArgsSwapped(n) ==
    /\ LoopRunning
    /\ node[n].st = "tfwd"
    /\ LET c == Outlets(n)[node[n].i]
           r == IF node[n].i = 1
                  THEN node[c].acc
                  ELSE TerminationResultFn(node[c].acc, node[n].acc)
       IN /\ node[c].st \in {"tret", "exc"}
          /\ node' = [node EXCEPT
                ![c] = [IdleNode EXCEPT !.st = "tdone"],
                ![n] = IF node[c].st = "exc"
                         THEN [@ EXCEPT !.st = "exc", !.exc = node[c].exc]
                         ELSE IF node[n].i = Len(Outlets(n))
                                THEN [@ EXCEPT !.st = "tret", !.acc = r]
                                ELSE [@ EXCEPT !.i = @ + 1, !.acc = r]]
    /\ UNCHANGED <<cfg, srcVars, result, joinVars, prodVars, seen, termCount>>

\* Flow._do_downstream, lines 43-46: the outlet's _do(_termination_obj) has
\* returned its result, which is combined with what the earlier outlets
\* returned, or has raised.
TermReturn(n) ==
    /\ LoopRunning
    /\ node[n].st = "tfwd"
    /\ LET c == Outlets(n)[node[n].i]
           r == IF node[n].i = 1
                  THEN node[c].acc
                  ELSE TerminationResultFn(node[n].acc, node[c].acc)
       IN /\ node[c].st \in {"tret", "exc"}
          /\ node' = [node EXCEPT
                ![c] = [IdleNode EXCEPT !.st = "tdone"],
                ![n] = IF node[c].st = "exc"
                         THEN [@ EXCEPT !.st = "exc", !.exc = node[c].exc]
                         ELSE IF node[n].i = Len(Outlets(n))
                                THEN [@ EXCEPT !.st = "tret", !.acc = r]
                                ELSE [@ EXCEPT !.i = @ + 1, !.acc = r]]
    /\ UNCHANGED <<cfg, srcVars, result, joinVars, prodVars, seen, termCount>>


\* ------------------------------------------------------------ JoinWithHttp
\* JoinWithHttp._lazy_init, run by _do when there is no client session yet:
\* the session, the queue and the consumer task, which starts by awaiting
\* the queue.
LazySession == IF session = "none" THEN "open" ELSE session
LazyWorker == IF session = "none" THEN [IdleWorker EXCEPT !.st = "get"] ELSE jw

\* asyncio.Task.done() of the consumer task.
WorkerDone(w) == w.st \in {"done", "failed"}

\* JoinWithHttp._do raising its AssertionError without awaiting the consumer
\* task first: the task's own failure is not re-raised.
DoneWorkerError_NotAwaited(w, n) == Exc("AssertionError", n, 0)

\* JoinWithHttp._do, lines 274-276: a consumer task that is done is awaited,
\* which raises its exception; if it has none, AssertionError is raised.
DoneWorkerError(w, n) ==
    IF w.st = "failed" THEN w.exc ELSE Exc("AssertionError", n, 0)

\* JoinWithHttp._do on a regular event, lines 271-288, up to its first
\* suspension: the request is issued before the put into the internal queue,
\* and the put suspends when the queue is full.
Join_do(n) ==
    /\ LoopRunning
    /\ Kind(n) = "JoinWithHttp"
    /\ node[n].st = "ready"
    /\ seen' = [seen EXCEPT ![n] = Append(@, node[n].ev.id)]
    /\ session' = LazySession
    /\ jw' = LazyWorker
    /\ IF WorkerDone(LazyWorker)
         THEN /\ node' = [node EXCEPT ![n].st = "exc",
                                      ![n].exc = DoneWorkerError(LazyWorker, n)]
              /\ UNCHANGED <<jq, req>>
         ELSE /\ req' = [req EXCEPT ![node[n].ev.id] = "pending"]
              /\ IF Len(jq) < MaxInFlight
                   THEN /\ jq' = Append(jq, node[n].ev)
                        /\ node' = [node EXCEPT ![n].st = "ok"]
                   ELSE /\ node' = [node EXCEPT ![n].st = "jput"]
                        /\ UNCHANGED jq
    /\ UNCHANGED <<cfg, srcVars, result, prodVars, termCount, overtaken>>

\* JoinWithHttp._do, lines 286-288: the suspended put goes through, and the
\* consumer task is awaited if it is done by then.
Join_put(n) ==
    /\ LoopRunning
    /\ node[n].st = "jput"
    /\ Len(jq) < MaxInFlight
    /\ jq' = Append(jq, node[n].ev)
    /\ node' = IF jw.st = "failed"
                 THEN [node EXCEPT ![n].st = "exc", ![n].exc = jw.exc]
                 ELSE [node EXCEPT ![n].st = "ok"]
    /\ UNCHANGED <<cfg, srcVars, result, jw, req, session, overtaken, prodVars, seen,
                   termCount>>

\* JoinWithHttp._do on the termination signal, lines 271-279, called by the
\* node n for its next outlet: up to the put of the termination marker.
Join_terminate(n) ==
    /\ LoopRunning
    /\ node[n].st = "tfwd"
    /\ LET c == Outlets(n)[node[n].i]
       IN /\ Kind(c) = "JoinWithHttp"
          /\ node[c].st = "idle"
          /\ termCount' = [termCount EXCEPT ![c] = @ + 1]
          /\ session' = LazySession
          /\ jw' = LazyWorker
          /\ IF WorkerDone(LazyWorker)
               THEN /\ node' = [node EXCEPT ![c].st = "exc",
                                            ![c].exc = DoneWorkerError(LazyWorker, c)]
                    /\ UNCHANGED jq
               ELSE IF Len(jq) < MaxInFlight
                      THEN /\ jq' = Append(jq, termination_obj)
                           /\ node' = [node EXCEPT ![c].st = "tjwait",
                                                   ![c].ev = termination_obj]
                      ELSE /\ node' = [node EXCEPT ![c].st = "tjput",
                                                   ![c].ev = termination_obj]
                           /\ UNCHANGED jq
    /\ UNCHANGED <<cfg, srcVars, result, req, overtaken, prodVars, seen>>

\* JoinWithHttp._do, line 279: the suspended put of the termination marker.
Join_terminate_put(n) ==
    /\ LoopRunning
    /\ node[n].st = "tjput"
    /\ Len(jq) < MaxInFlight
    /\ jq' = Append(jq, termination_obj)
    /\ node' = [node EXCEPT ![n].st = "tjwait"]
    /\ UNCHANGED <<cfg, srcVars, result, jw, req, session, overtaken, prodVars, seen,
                   termCount>>

\* JoinWithHttp._do without the await of line 280: the termination signal
\* goes on to the outlets as soon as the marker is in the queue.
Join_terminate_wait_NotAwaited(n) ==
    /\ LoopRunning
    /\ node[n].st = "tjwait"
    /\ node' = [node EXCEPT ![n] = DoDownstreamTermination(@, n)]
    /\ UNCHANGED <<cfg, srcVars, result, joinVars, prodVars, seen, termCount>>

\* JoinWithHttp._do, lines 280-281: the consumer task is done; its exception
\* is raised, or the termination signal goes on to the outlets.
Join_terminate_wait(n) ==
    /\ LoopRunning
    /\ node[n].st = "tjwait"
    /\ WorkerDone(jw)
    /\ node' = [node EXCEPT ![n] = IF jw.st = "failed"
                                     THEN [@ EXCEPT !.st = "exc", !.exc = jw.exc]
                                     ELSE DoDownstreamTermination(@, n)]
    /\ UNCHANGED <<cfg, srcVars, result, joinVars, prodVars, seen, termCount>>

\* JoinWithHttp._worker, lines 247-252: the next job is taken off the queue;
\* the termination marker ends the loop and the client is closed.
Worker_get ==
    /\ LoopRunning
    /\ jw.st = "get"
    /\ jq # <<>>
    /\ jq' = Tail(jq)
    /\ IF Head(jq) = termination_obj
         THEN /\ jw' = [IdleWorker EXCEPT !.st = "done"]
              /\ session' = "closed"
         ELSE /\ jw' = [IdleWorker EXCEPT !.st = "resp", !.job = Head(jq)]
              /\ UNCHANGED session
    /\ UNCHANGED <<cfg, srcVars, node, result, req, overtaken, prodVars, seen, termCount>>

\* The transport: a pending request completes, with a response or an error.
RequestComplete(k) ==
    /\ LoopRunning
    /\ req[k] = "pending"
    /\ \E o \in (IF cfg.reqFails THEN {"ok", "fail"} ELSE {"ok"}) :
          req' = [req EXCEPT ![k] = o]
    /\ overtaken' = (overtaken \/ \E j \in 1..(k - 1) : req[j] = "pending")
    /\ UNCHANGED <<cfg, srcVars, node, result, jq, jw, session, prodVars, seen, termCount>>

\* A consumer task that takes whichever response has come: when the job in
\* hand is still pending and the response of the next queued job is there,
\* the two jobs change places.
Worker_response_AsCompleted ==
    /\ LoopRunning
    /\ jw.st = "resp"
    /\ LET swap == /\ req[jw.job.id] = "pending"
                   /\ jq # <<>>
                   /\ Head(jq) # termination_obj
                   /\ req[Head(jq).id] \in {"ok", "fail"}
           job == IF swap THEN Head(jq) ELSE jw.job
       IN /\ req[job.id] \in {"ok", "fail"}
          /\ req' = [req EXCEPT ![job.id] = "consumed"]
          /\ node' = CreateTasks(node, "join", job)
          /\ jw' = [jw EXCEPT !.st = "fwd", !.i = 1, !.job = job]
          /\ jq' = IF swap THEN <<jw.job>> \o Tail(jq) ELSE jq
          /\ UNCHANGED session
    /\ UNCHANGED <<cfg, srcVars, result, overtaken, prodVars, seen, termCount>>

\* JoinWithHttp._worker, lines 252-260: the response of the job in hand has
\* come. The joined event is forwarded; a failed request or a raising
\* join_from_response ends the task through its except clause.
Worker_response ==
    /\ LoopRunning
    /\ jw.st = "resp"
    /\ req[jw.job.id] \in {"ok", "fail"}
    /\ req' = [req EXCEPT ![jw.job.id] = "consumed"]
    /\ IF req[jw.job.id] = "fail"
         THEN /\ WorkerExcept(Exc("request", "join", jw.job.id), "failed")
              /\ UNCHANGED node
         ELSE IF UserRaises("join", jw.job.el)
                THEN /\ WorkerExcept(Exc("user", "join", jw.job.id), "failed")
                     /\ UNCHANGED node
                ELSE /\ node' = CreateTasks(node, "join", jw.job)
                     /\ jw' = IF Outlets("join") = <<>>
                                THEN [IdleWorker EXCEPT !.st = "get"]
                                ELSE [jw EXCEPT !.st = "fwd", !.i = 1]
                     /\ UNCHANGED <<jq, session>>
    /\ UNCHANGED <<cfg, srcVars, result, overtaken, prodVars, seen, termCount>>

\* JoinWithHttp._worker, line 256: the await of _do_downstream, which awaits
\* the outlets' tasks in order (Flow._do_downstream, lines 50-51).
Worker_await ==
    /\ LoopRunning
    /\ jw.st = "fwd"
    /\ LET c == Outlets("join")[jw.i]
       IN /\ node[c].st \in {"ok", "exc"}
          /\ node' = [node EXCEPT ![c] = IdleNode]
          /\ IF node[c].st = "exc"
               THEN WorkerExcept(node[c].exc, "failed")
               ELSE /\ jw' = IF jw.i = Len(Outlets("join"))
                               THEN [IdleWorker EXCEPT !.st = "get"]
                               ELSE [jw EXCEPT !.i = @ + 1]
                    /\ UNCHANGED <<jq, session>>
    /\ UNCHANGED <<cfg, srcVars, result, req, overtaken, prodVars, seen, termCount>>

\* ------------------------------------------------------- specifications
\* The state after construction and Source.run(), for a given tree.
InitWith(c) ==
    /\ cfg = c
    /\ q = <<>>
    /\ termination_q = <<>>
    /\ ex = NoEx
    /\ termination_future = <<>>
    /\ wpc = "get"
    /\ cur = NoEvent
    /\ node = [n \in Nodes |-> IdleNode]
    /\ result = [n \in Nodes |-> <<>>]
    /\ jq = <<>>
    /\ jw = IdleWorker
    /\ req = [k \in 1..MaxEmits |-> "none"]
    /\ session = "none"
    /\ pc = [p \in Producers |-> "idle"]
    /\ item = [p \in Producers |-> "none"]
    /\ calls = [emit |-> 0, terminate |-> 0, await |-> 0, raised |-> 0, returned |-> 0]
    /\ awaitOut = [p \in Producers |-> [kind |-> "none", cause |-> NoEx, val |-> None]]
    /\ emitted = <<>>
    /\ seen = [n \in Nodes |-> <<>>]
    /\ termCount = [n \in Nodes |-> 0]
    /\ overtaken = FALSE
    /\ blockedAtFailure = {}

Config(topo, producers, raising, suspending, reqFails, combiner) ==
    [topo |-> topo, producers |-> producers, raising |-> raising,
     suspending |-> suspending, reqFails |-> reqFails, combiner |-> combiner]

ControllerStep ==
    \/ \E p \in cfg.producers, x \in Payloads : Emit(p, x)
    \/ \E p \in cfg.producers : Terminate(p)
    \/ \E p \in cfg.producers : EmitPut(p)
    \/ \E p \in cfg.producers : EmitCheck(p)
    \/ \E p \in cfg.producers : AwaitTermination(p)
    \/ \E p \in cfg.producers : AwaitReturn(p)

SourceStep == WorkerGet \/ WorkerDispatch \/ WorkerResume \/ WorkerExit

FlowStep ==
    \/ \E n \in Nodes : Map_do(n)
    \/ \E n \in Nodes : Reduce_do(n)
    \/ \E n \in Nodes : AwaitTask(n)
    \/ \E n \in Nodes : TermCall(n)
    \/ \E n \in Nodes : TermReturn(n)

JoinStep ==
    \/ \E n \in Nodes : Join_do(n)
    \/ \E n \in Nodes : Join_put(n)
    \/ \E n \in Nodes : Join_terminate(n)
    \/ \E n \in Nodes : Join_terminate_put(n)
    \/ \E n \in Nodes : Join_terminate_wait(n)
    \/ Worker_get
    \/ Worker_response
    \/ Worker_await
    \/ \E k \in 1..MaxEmits : RequestComplete(k)

\* Source -> Map -> Map -> Reduce with identity maps, fed by one producer.
Init == InitWith(Config("pipeline", {"p1"}, {}, {}, FALSE, "default"))
Next == ControllerStep \/ SourceStep \/ FlowStep
Spec == Init /\ [][Next]_vars

\* The pipeline with a second Map whose function raises on BadPayload, fed by
\* two producer threads.
InitFailure == InitWith(Config("pipeline", {"p1", "p2"}, {"mapB"}, {}, FALSE, "default"))
NextFailure == ControllerStep \/ SourceStep \/ WorkerDrain \/ FlowStep
SpecFailure == InitFailure /\ [][NextFailure]_vars

\* Trees in which something raises, on a regular event or on the termination
\* signal: the pipeline with a Map or a Reduce whose function raises on
\* BadPayload, a Source whose only outlet is a Map without outlets, where
\* the termination signal raises IndexError, and Source -> JoinWithHttp ->
\* Reduce with requests that may fail.
InitAnyFailure ==
    \/ InitWith(Config("pipeline", {"p1"}, {"mapB"}, {}, FALSE, "default"))
    \/ InitWith(Config("pipeline", {"p1"}, {"reduceA"}, {}, FALSE, "default"))
    \/ InitWith(Config("leaf", {"p1"}, {}, {}, FALSE, "default"))
    \/ InitWith(Config("joinline", {"p1"}, {}, {}, TRUE, "default"))
NextAnyFailure == NextFailure \/ JoinStep
SpecAnyFailure == InitAnyFailure /\ [][NextAnyFailure]_vars

\* Source with two outlets, each a Map into a Reduce, default combiner.
InitFanout == InitWith(Config("fanout", {"p1"}, {}, {}, FALSE, "default"))
SpecFanout == InitFanout /\ [][Next]_vars

\* The pipeline with a first Map whose async function suspends until released.
InitBackpressure == InitWith(Config("pipeline", {"p1"}, {}, {"mapA"}, FALSE, "default"))
NextBackpressure == Next \/ \E n \in Nodes : Release(n)
SpecBackpressure == InitBackpressure /\ [][NextBackpressure]_vars

\* Source with two outlets: a JoinWithHttp into a Reduce, and a Map into a
\* Reduce. Requests complete in any order and do not fail.
InitJoin == InitWith(Config("join", {"p1"}, {}, {}, FALSE, "second"))
NextJoin == Next \/ JoinStep
SpecJoin == InitJoin /\ [][NextJoin]_vars


\* Source -> Map -> JoinWithHttp -> Reduce with a Map whose async function
\* suspends until it is released.  The worker thread, the tasks of its event loop and a producer
\* thread inside a Controller call go on whenever they can; every suspended
\* user function is released and every request completes.
InitLive == InitWith(Config("mapjoin", {"p1"}, {}, {"mapA"}, FALSE, "default"))
NextLive == NextJoin \/ \E n \in Nodes : Release(n)
WorkerFairness == WF_vars(SourceStep \/ WorkerDrain \/ FlowStep \/ JoinStep \/ \E n \in Nodes : Release(n))
CallFairness == WF_vars(\E p \in Producers : EmitPut(p) \/ EmitCheck(p) \/ AwaitReturn(p))
SpecLive == InitLive /\ [][NextLive]_vars /\ WorkerFairness /\ CallFairness

\* Source -> Map -> JoinWithHttp -> Reduce, where a request may fail and the
\* Reduce's function raises on BadPayload, with the scheduling of SpecLive.
InitJoinFailure == InitWith(Config("mapjoin", {"p1"}, {"reduceA"}, {}, TRUE, "default"))
SpecJoinFailure == InitJoinFailure /\ [][NextAnyFailure]_vars /\ WorkerFairness /\ CallFairness

\* Source with three outlets, a Map into a Reduce, a Reduce, and a Map into
\* a Reduce, and a combiner that is not associative.
InitFan3 == InitWith(Config("fan3", {"p1"}, {}, {}, FALSE, "bracket"))
SpecFan3 == InitFan3 /\ [][Next]_vars

\* The tree of SpecFanout where the first Map's function raises on BadPayload
\* and the second Map's async function suspends until it is released.
InitFanoutFailure == InitWith(Config("fanout", {"p1"}, {"mapA"}, {"mapB"}, FALSE, "default"))
NextFanoutFailure == NextFailure \/ \E n \in Nodes : Release(n)
SpecFanoutFailure == InitFanoutFailure /\ [][NextFanoutFailure]_vars

\* Source -> JoinWithHttp -> Reduce, where a request may fail, fed with one
\* payload, with the scheduling of SpecLive.
InitJoinBlocked == InitWith(Config("joinline", {"p1"}, {}, {}, TRUE, "default"))
NextJoinBlocked ==
    \/ \E p \in cfg.producers : Emit(p, "a")
    \/ \E p \in cfg.producers : Terminate(p)
    \/ \E p \in cfg.producers : EmitPut(p)
    \/ \E p \in cfg.producers : EmitCheck(p)
    \/ \E p \in cfg.producers : AwaitTermination(p)
    \/ \E p \in cfg.producers : AwaitReturn(p)
    \/ SourceStep
    \/ WorkerDrain
    \/ \E n \in Nodes : Reduce_do(n)
    \/ \E n \in Nodes : AwaitTask(n)
    \/ \E n \in Nodes : TermCall(n)
    \/ \E n \in Nodes : TermReturn(n)
    \/ JoinStep
SpecJoinBlocked == InitJoinBlocked /\ [][NextJoinBlocked]_vars /\ WorkerFairness /\ CallFairness

\* ---------------------------------------------------------------- claims
IsPrefix(s, t) == Len(s) <= Len(t) /\ SubSeq(t, 1, Len(s)) = s

Ids(s) == [k \in 1..Len(s) |-> s[k].id]

Min(S) == CHOOSE m \in S : \A k \in S : m <= k

Range(s) == {s[k] : k \in 1..Len(s)}

\* The events put into the admission queue before the first termination signal.
EventsBeforeTermination ==
    LET at == {k \in 1..Len(emitted) : emitted[k] = termination_obj}
    IN IF at = {} THEN emitted ELSE SubSeq(emitted, 1, Min(at) - 1)

RECURSIVE FoldLeft(_, _)
FoldLeft(acc, events) ==
    IF events = <<>> THEN acc ELSE FoldLeft(ReduceFn(acc, Head(events).el), Tail(events))

Returned(p) == awaitOut[p].kind = "returned"

\* C1: in Source -> Map -> Map -> Reduce with identity maps and one producer,
\* the Reduce receives the emitted events in emission order, all N of them by
\* the time it receives the termination signal, and await_termination returns
\* the accumulator function folded left over the N payloads from the initial
\* value.
C1_PipelineDeliversAndFolds ==
    /\ IsPrefix(seen["reduceA"], Ids(EventsBeforeTermination))
    /\ termCount["reduceA"] > 0 => seen["reduceA"] = Ids(EventsBeforeTermination)
    /\ \A p \in Producers :
          Returned(p) => awaitOut[p].val = Val(FoldLeft(<<>>, EventsBeforeTermination))

C1_Witness ==
    /\ Returned("p1")
    /\ Len(awaitOut["p1"].val.v) >= 2
    /\ awaitOut["p1"].val.v[1] # awaitOut["p1"].val.v[2]


C3_BlockedEmitIsReleased ==
    \A p \in blockedAtFailure :
        ~(wpc = "exited" /\ pc[p] = "put" /\ Len(q) = BufferSize)

\* The exceptions raised so far: those propagating through the tree and the
\* one the Source has recorded.
RaisedExceptions ==
    {node[n].exc : n \in {m \in Nodes : node[m].st = "exc"}}
        \cup (IF ex # NoEx THEN {ex} ELSE {})

\* C4: once a transform has raised on the k-th emitted event, no node has
\* processed or goes on to process an event emitted after the k-th.
C4_NothingAfterFailedEvent ==
    \A e \in RaisedExceptions :
        e.what = "user" =>
            \A n \in Nodes : \A k \in 1..Len(seen[n]) : seen[n][k] <= e.id

C4_Witness ==
    /\ ex.what = "user"
    /\ wpc = "exited"
    /\ \E k \in 1..Len(emitted) : emitted[k].id > ex.id
    /\ \E p \in Producers : pc[p] = "put"

\* The exception the tree of cfg raises first: the user function's, on the
\* first event with BadPayload, or the IndexError of a Map without outlets on
\* the termination signal.
FirstBadId ==
    Min({EventsBeforeTermination[k].id : k \in
            {j \in 1..Len(EventsBeforeTermination) :
                EventsBeforeTermination[j].el = BadPayload}})

\* The first request of the join that failed: the consumer task takes the
\* responses in order and ends at the first failure.
FirstFailedRequest == Min({k \in DOMAIN req : req[k] = "consumed" /\ k \notin Range(seen["reduceA"])})

OriginalException ==
    CASE cfg.topo = "leaf" -> Exc("IndexError", "mapA", 0)
      [] cfg.topo = "joinline" -> Exc("request", "join", FirstFailedRequest)
      [] OTHER -> Exc("user", CHOOSE n \in cfg.raising : TRUE, FirstBadId)

\* C5: once anything in the tree has raised while the worker processed an
\* item, await_termination does not return a result; the outcome the worker
\* hands over is the failure, and await_termination raises FlowError whose
\* cause is the exception that was raised.
C5_FailureRaisesFlowError ==
    /\ RaisedExceptions # {} => \A p \in Producers : ~Returned(p)
    /\ (wpc = "exited" /\ ex # NoEx) =>
          \/ termination_q = <<ex>>
          \/ \E p \in Producers : awaitOut[p].kind = "FlowError"
    /\ \A p \in Producers :
          awaitOut[p].kind = "FlowError" => awaitOut[p].cause = OriginalException

C5_Witness ==
    /\ awaitOut["p1"].kind = "FlowError"
    /\ awaitOut["p1"].cause.what = "user"
    /\ awaitOut["p1"].cause.id >= 2


\* The requests issued whose responses the consumer task has not consumed.
InFlight == {k \in DOMAIN req : req[k] \in {"pending", "ok", "fail"}}

\* C6: at every moment the number of requests JoinWithHttp has issued and
\* whose responses its consumer task has not yet consumed is at most
\* max_in_flight.
C6_InFlightAtMostMax == Cardinality(InFlight) <= MaxInFlight

\* C7: JoinWithHttp forwards the derived events downstream in the order in
\* which the events arrived and had their requests issued, whatever the order
\* in which the responses complete.
C7_JoinForwardsInArrivalOrder == IsPrefix(seen["reduceA"], seen["join"])

C7_Witness ==
    /\ overtaken
    /\ Len(seen["reduceA"]) >= 2

Suspended(n, k) == node[n].st = "susp" /\ node[n].ev.id = k

\* C8 as stated: with capacity 1, while the transform is suspended on the
\* first event the second emit call has not returned.
C8_Original == Suspended("mapA", 1) => calls.returned <= 1

\* C8, amended: with capacity 1 and the transform suspended on the first
\* event, the second emit returns (the worker has taken the first event off
\* the queue) and it is the third emit that stays blocked: a third item
\* enters the admission queue only after the transform has been released.
C8_ThirdEmitWaitsForRelease ==
    Len(emitted) >= 3 => (seen["mapA"] # <<>> /\ ~Suspended("mapA", 1))

C8_Witness ==
    /\ Suspended("mapA", 1)
    /\ calls.returned = 2
    /\ pc["p1"] = "put"
    /\ item["p1"] \in Payloads
    /\ Len(q) = BufferSize

\* C9: no node receives the termination signal twice, and in a run that ends
\* without failure, with await_termination returning, every node of the tree
\* has received it exactly once.
C9_TerminationExactlyOnce ==
    /\ \A n \in Nodes : termCount[n] <= 1
    /\ (\E p \in Producers : Returned(p)) => \A n \in Tree : termCount[n] = 1

C9_Witness ==
    /\ Returned("p1")
    /\ Len(seen["reduceA"]) >= 2
    /\ Len(seen["reduceB"]) >= 2

\* C10: a node that has received the termination signal has received every
\* event emitted before terminate, the joined events of a JoinWithHttp
\* upstream included, has finished processing them, and processes no event
\* afterwards.
C10_EventsBeforeTermination ==
    \A n \in Tree :
        termCount[n] > 0 =>
            /\ seen[n] = Ids(EventsBeforeTermination)
            /\ node[n].st \notin {"ready", "susp", "wait", "jput"}
            /\ Kind(n) = "Reduce" => Len(result[n]) = Len(seen[n])

C10_Witness ==
    /\ termCount["reduceA"] = 1
    /\ Len(seen["reduceA"]) >= 2
    /\ overtaken

\* The termination result of the subtree of n, from the Reduce results as they
\* stand: a Reduce returns its result, any other node the results of its
\* outlets combined left to right.
RECURSIVE TreeResult(_), CombineFrom(_, _, _)
TreeResult(n) ==
    IF Kind(n) = "Reduce" THEN Val(result[n])
    ELSE IF Outlets(n) = <<>> THEN None
    ELSE CombineFrom(n, 2, TreeResult(Outlets(n)[1]))

CombineFrom(n, i, acc) ==
    IF i > Len(Outlets(n)) THEN acc
    ELSE CombineFrom(n, i + 1, TerminationResultFn(acc, TreeResult(Outlets(n)[i])))

TerminateCalled == \E k \in 1..Len(emitted) : emitted[k] = termination_obj

\* C11: in a failure-free run in which every user function and every request
\* completes, an await_termination call made once terminate has been called
\* returns; it has returned only when the worker has driven the termination
\* signal through the whole tree and exited, and what it returns is the
\* combined termination result of the tree.
C11_TerminateLeadsToReturn ==
    /\ [](\A p \in Producers :
            Returned(p) =>
                /\ wpc = "exited"
                /\ \A n \in Tree : termCount[n] = 1
                /\ \A n \in Tree \ {"source"} : node[n].st = "tdone"
                /\ awaitOut[p].val = TreeResult("source"))
    /\ \A p \in Producers : (pc[p] = "await" /\ TerminateCalled) ~> Returned(p)

C11_Witness ==
    /\ Returned("p1")
    /\ wpc = "exited"
    /\ overtaken
    /\ Len(result["reduceA"]) >= 2
    /\ awaitOut["p1"].val = Val(result["reduceA"])

\* C12 as stated: a run in which await_termination returns has no Controller
\* call that raised, and over a whole run at most one Controller call raises.
C12_Original ==
    /\ (\E p \in Producers : Returned(p)) => calls.raised = 0
    /\ calls.raised <= 1

\* C12, amended: a run in which await_termination returns has no Controller
\* call that raised; once a failure is recorded, every emit or terminate call
\* begun from then on raises at once, without putting anything into the
\* queue, each such call and not only the first.
C12_EveryCallAfterFailureRaises ==
    [][/\ (\E p \in Producers : awaitOut'[p].kind = "returned") => calls'.raised = 0
       /\ (ex # NoEx /\ calls'.emit + calls'.terminate > calls.emit + calls.terminate)
             => (calls'.raised = calls.raised + 1 /\ pc' = pc /\ emitted' = emitted)]_vars

C12_Witness ==
    /\ ex # NoEx
    /\ calls.raised >= 2
    /\ calls.await = 0

\* C13: in a tree whose leaf is a Map without outlets and whose user functions
\* never raise, the termination signal is handled without error, so
\* await_termination does not raise.
C13_LeafHandlesTermination ==
    cfg.topo = "leaf" => \A p \in Producers : awaitOut[p].kind # "FlowError"

\* C14: an emit or terminate call begun after the worker has processed the
\* termination signal and exited without failure raises at once: it does not
\* go on to the put, where it would enqueue its item or block.
C14_CallAfterExitIsRejected ==
    [][(/\ wpc = "exited"
        /\ ex = NoEx
        /\ calls'.emit + calls'.terminate > calls.emit + calls.terminate)
          => (calls'.raised = calls.raised + 1 /\ pc' = pc)]_vars

\* C15: the termination signal goes to the outlets of a node one after
\* another in registration order, an outlet receiving it only when the outlet
\* before it has returned its result, and the node returns the results
\* combined left to right, f(...f(f(r1, r2), r3)..., rn), which is r1 itself
\* for a single outlet.
C15_TerminationSequentialLeftFold ==
    /\ \A n \in Tree : \A i \in 1..(Len(Outlets(n)) - 1) :
          termCount[Outlets(n)[i + 1]] > 0 => node[Outlets(n)[i]].st = "tdone"
    /\ \A n \in Tree : node[n].st = "tret" => node[n].acc = TreeResult(n)
    /\ \A p \in Producers : Returned(p) => awaitOut[p].val = TreeResult("source")

C15_Witness ==
    /\ Returned("p1")
    /\ result["reduceA"] = <<"a", "b">>
    /\ awaitOut["p1"].val =
          Bracket(Bracket(Val(<<"a", "b">>), Val(<<"a", "b">>)), Val(<<"a", "b">>))

\* C16: a node that waits for its outlets on an event has started the
\* processing of the event in every one of them, and when its own processing
\* of the event has returned or raised, none of its outlets is still
\* suspended in the processing of that event.
C16_ReturnsAfterEveryOutlet ==
    \A n \in Tree :
        /\ node[n].st = "wait" =>
              \A i \in node[n].i..Len(Outlets(n)) : node[Outlets(n)[i]].st # "idle"
        /\ node[n].st \in {"ok", "exc"} =>
              \A i \in 1..Len(Outlets(n)) : node[Outlets(n)[i]].st # "susp"

\* The states of an activation that is processing a regular event.
Processing == {"ready", "susp", "wait", "jput"}

\* The nodes downstream of a JoinWithHttp.
JoinDownstream ==
    UNION {UNION {Reachable(Outlets(j)[i]) : i \in 1..Len(Outlets(j))} :
              j \in {n \in Tree : Kind(n) = "JoinWithHttp"}}

\* The events that are being processed somewhere in the tree: in a node, in
\* the join's internal queue, or in the hands of its consumer task.
EventsInTree ==
    {node[n].ev.id : n \in {m \in Tree \ {"source"} : node[m].st \in Processing}}
      \cup {jq[k].id : k \in {j \in 1..Len(jq) : jq[j] # termination_obj}}
      \cup (IF jw.st \in {"resp", "fwd"} THEN {jw.job.id} ELSE {})

\* C17 as stated: when the worker takes the next item nothing of the previous
\* item is left in the tree, and no two events are in the tree at once, in a
\* tree with a JoinWithHttp and a node downstream of it.
C17_Original ==
    /\ wpc \in {"get", "got"} => EventsInTree = {}
    /\ Cardinality(EventsInTree) <= 1

\* The events being processed in the nodes that are not downstream of a
\* JoinWithHttp.
EventsOutsideJoin ==
    {node[n].ev.id : n \in {m \in (Tree \ JoinDownstream) \ {"source"} :
                                node[m].st \in Processing}}

\* C17, amended: the worker takes the next item only when every node that is
\* not downstream of a JoinWithHttp has finished the previous one, so no two
\* events are being processed at the same time outside the join's queue, its
\* consumer task and the nodes downstream of it.
C17_OneEventAtATimeOutsideJoin ==
    /\ wpc \in {"get", "got"} => EventsOutsideJoin = {}
    /\ Cardinality(EventsOutsideJoin) <= 1

C17_Witness ==
    /\ wpc = "run"
    /\ cur.id = 2
    /\ node["mapB"].st = "ready"
    /\ node["reduceA"].st = "ready"
    /\ node["reduceA"].ev.id = 1

\* C18: once the consumer task of JoinWithHttp has failed, an event or a
\* termination signal that then arrives at the join is not accepted: its _do
\* raises the consumer's failure without queueing anything, and from then on
\* await_termination does not return a result.
C18_FailedJoinRejectsNextItem ==
    [][jw.st = "failed" =>
          /\ (seen'["join"] # seen["join"] \/ termCount'["join"] # termCount["join"])
                => (/\ node'["join"].st = "exc"
                    /\ node'["join"].exc = jw.exc
                    /\ jq' = jq
                    /\ req' = req)
          /\ \A p \in Producers : awaitOut'[p].kind # "returned"]_vars

C18_Witness ==
    /\ jw.st = "failed"
    /\ node["join"].st = "exc"
    /\ node["join"].exc = jw.exc
    /\ node["join"].ev.id > jw.exc.id
    /\ jq = <<>>

\* The event path of the join is suspended in its put into the full internal
\* queue and the consumer task has failed.
BlockedAtJoinFailure == node["join"].st = "jput" /\ jw.st = "failed"

\* C19: when the consumer task of JoinWithHttp fails while the event path is
\* suspended in its put into the full internal queue, the drain of one queued
\* record has made room for that put, the failure reaches the Source, and an
\* await_termination call made once the Source has recorded the failure
\* raises FlowError: the run does not hang.
C19_BlockedPushIsReleased ==
    /\ [](BlockedAtJoinFailure => Len(jq) < MaxInFlight)
    /\ BlockedAtJoinFailure ~> (ex = jw.exc)
    /\ \A p \in Producers :
          (ex # NoEx /\ pc[p] = "await") ~> (awaitOut[p].kind = "FlowError")

C19_Witness ==
    /\ awaitOut["p1"].kind = "FlowError"
    /\ awaitOut["p1"].cause.what = "request"
    /\ Len(seen["join"]) = awaitOut["p1"].cause.id + MaxInFlight + 1
    /\ jq # <<>>

\* The await_termination calls that have returned or raised.
AwaitsCompleted == calls.await - Cardinality({p \in Producers : pc[p] = "await"})

\* C20: the outcome of a run goes through the one-slot _termination_q, which
\* the worker fills once, when it exits; one await_termination call takes it,
\* and a call made after that one has returned or raised stays blocked.
C20_OnlyFirstAwaitCompletes ==
    /\ Len(termination_q) <= 1
    /\ wpc # "exited" => (termination_q = <<>> /\ AwaitsCompleted = 0)
    /\ wpc = "exited" => Len(termination_q) + AwaitsCompleted = 1
    /\ AwaitsCompleted <= 1

C20_Witness ==
    /\ calls.await = 2
    /\ pc["p1"] = "await"
    /\ awaitOut["p1"].kind = "FlowError"
    /\ wpc = "exited"
    /\ termination_q = <<>>


====
